---------------------------- MODULE Spec2Model ----------------------------
(***************************************************************************)
(* A model of the local search engine's index (src/src/model.rs), its     *)
(* tokenizer (src/src/lexer.rs) and its ranking functions.                 *)
(*                                                                         *)
(* A character is a one-element model value (a string naming it), a text   *)
(* is a sequence of characters, a term is a sequence of characters.        *)
(* An f32 is NaN, an infinity, or a finite value [s, m, e] that stands for *)
(* s * m * 2^e with a mantissa m of 24 bits; division, multiplication and *)
(* addition round to nearest, ties to even, as IEEE 754 binary32 does.     *)
(* log10 is a table over the quotients of the small integers the bounds    *)
(* allow.  Subnormals and overflow are out of reach of these values.       *)
(***************************************************************************)
EXTENDS Integers, Sequences, FiniteSets, TLC

VARIABLES docs, df, fault, last, hits, stale, history, lexer,
          mutex, server, indexer, walk

vars == <<docs, df, fault, last, hits, stale, history, lexer,
          mutex, server, indexer, walk>>

---------------------------------------------------------------------------
(* Bounds of the model.                                                    *)

NumPaths == 2
MaxTime == 1
MaxQueryWords == 3
MaxLen == 4

Paths == 1..NumPaths
Timestamps == 0..MaxTime

---------------------------------------------------------------------------
(* Characters and their classes (char::is_alphabetic, is_numeric,          *)
(* is_whitespace, to_ascii_lowercase of the standard library).  "U+00C9"   *)
(* and "U+00E9" are the non-ASCII letters E-acute, upper and lower case.   *)

AsciiLower == {"a", "b", "s"}
AsciiUpper == {"A", "B", "S"}
NonAsciiAlpha == {"U+00C9", "U+00E9"}
Digits == {"7", "0"}
Spaces == {" ", "\t"}
Others == {".", "'"}

Chars == AsciiLower \cup AsciiUpper \cup NonAsciiAlpha \cup Digits \cup Spaces \cup Others

Alphabetic == AsciiLower \cup AsciiUpper \cup NonAsciiAlpha

Numeric == Digits

is_alphabetic(x) == x \in Alphabetic

is_numeric(x) == x \in Numeric

is_whitespace(x) == x \in Spaces

to_ascii_lowercase(x) ==
    CASE x = "A" -> "a"
      [] x = "B" -> "b"
      [] x = "S" -> "s"
      [] OTHER -> x

---------------------------------------------------------------------------
(* The stemmer (crate::snowball, not part of the sources at hand): a       *)
(* deterministic, idempotent function on words.  Words shorter than three  *)
(* characters are left alone; a final "s" that does not follow an "s" is   *)
(* removed.                                                                *)

stem(w) ==
    IF Len(w) >= 3 /\ w[Len(w)] = "s" /\ w[Len(w) - 1] # "s"
    THEN SubSeq(w, 1, Len(w) - 1)
    ELSE w

---------------------------------------------------------------------------
(* The Lexer.  A lexer is its remaining content; each operation returns    *)
(* what it yields together with the content left.                          *)

(* &self.content[0..n] and &self.content[n..] panic when n is past the end *)
(* of the slice: oob.                                                      *)
chop(content, n) ==
    IF n > Len(content)
    THEN [token |-> <<>>, rest |-> content, oob |-> TRUE]
    ELSE [token |-> SubSeq(content, 1, n),
          rest  |-> SubSeq(content, n + 1, Len(content)),
          oob   |-> FALSE]

(* predicate is given as the set of the characters it holds of. *)
chop_while(content, predicate) ==
    LET n == CHOOSE k \in 0..Len(content) :
                 /\ \A i \in 1..k : content[i] \in predicate
                 /\ (k < Len(content) => content[k + 1] \notin predicate)
    IN  chop(content, n)

RECURSIVE trim_left(_)
trim_left(content) ==
    IF Len(content) > 0 /\ is_whitespace(content[1])
    THEN trim_left(Tail(content))
    ELSE content

(* What next_token returns, with the content it leaves in the Lexer; oob:  *)
(* it has panicked on an index out of bounds instead.                      *)
None == [some |-> FALSE, token |-> <<>>, rest |-> <<>>, oob |-> FALSE]

Some(t, r) == [some |-> TRUE, token |-> t, rest |-> r, oob |-> FALSE]

Panic(r) == [some |-> FALSE, token |-> <<>>, rest |-> r, oob |-> TRUE]

(* next_token as it would be with a last branch that returns the character *)
(* at the front without chopping it off.                                   *)
next_token_peeking(content) ==
    LET c == trim_left(content) IN
    IF Len(c) = 0 THEN None
    ELSE IF is_alphabetic(c[1])
         THEN LET r == chop_while(c, Alphabetic)
                  term == [i \in 1..Len(r.token) |-> to_ascii_lowercase(r.token[i])]
              IN  IF r.oob THEN Panic(c) ELSE Some(stem(term), r.rest)
    ELSE IF is_numeric(c[1])
         THEN LET r == chop_while(c, Numeric)
              IN  IF r.oob THEN Panic(c) ELSE Some(r.token, r.rest)
    ELSE Some(<<c[1]>>, c)

next_token(content) ==
    LET c == trim_left(content) IN
    IF Len(c) = 0 THEN None
    ELSE IF is_alphabetic(c[1])
         THEN LET r == chop_while(c, Alphabetic)
                  term == [i \in 1..Len(r.token) |-> to_ascii_lowercase(r.token[i])]
              IN  IF r.oob THEN Panic(c) ELSE Some(stem(term), r.rest)
    ELSE IF is_numeric(c[1])
         THEN LET r == chop_while(c, Numeric)
              IN  IF r.oob THEN Panic(c) ELSE Some(r.token, r.rest)
    ELSE LET r == chop(c, 1)
         IN  IF r.oob THEN Panic(c) ELSE Some(r.token, r.rest)

(* Lexer::new(content).collect(): the tokens the iterator yields.          *)
RECURSIVE Lexer(_)
Lexer(content) ==
    LET t == next_token(content) IN
    IF t.some THEN <<t.token>> \o Lexer(t.rest) ELSE <<>>

(* main.rs has a Lexer of its own, the one above without the stemmer. *)
main_next_token(content) ==
    LET c == trim_left(content) IN
    IF Len(c) = 0 THEN None
    ELSE IF is_alphabetic(c[1])
         THEN LET r == chop_while(c, Alphabetic)
                  term == [i \in 1..Len(r.token) |-> to_ascii_lowercase(r.token[i])]
              IN  IF r.oob THEN Panic(c) ELSE Some(term, r.rest)
    ELSE IF is_numeric(c[1])
         THEN LET r == chop_while(c, Numeric)
              IN  IF r.oob THEN Panic(c) ELSE Some(r.token, r.rest)
    ELSE LET r == chop(c, 1)
         IN  IF r.oob THEN Panic(c) ELSE Some(r.token, r.rest)

RECURSIVE main_Lexer(_)
main_Lexer(content) ==
    LET t == main_next_token(content) IN
    IF t.some THEN <<t.token>> \o main_Lexer(t.rest) ELSE <<>>

---------------------------------------------------------------------------
(* f32 arithmetic.                                                         *)

NaN == [k |-> "nan", s |-> 1, m |-> 0, e |-> 0]

Inf(sign) == [k |-> "inf", s |-> sign, m |-> 0, e |-> 0]

(* The finite value s * m * 2^e: s is 1 or -1, and m is 0 (then s = 1 and  *)
(* e = 0) or has exactly 24 bits.                                          *)
Fin(s, m, e) == [k |-> "fin", s |-> s, m |-> m, e |-> e]

Zero == Fin(1, 0, 0)

Sign(i) == IF i > 0 THEN 1 ELSE IF i < 0 THEN -1 ELSE 0

is_nan(x) == x.k = "nan"

is_zero(x) == x.k = "fin" /\ x.m = 0

(* The number of bits of m, for 0 < m < 2^31. *)
RECURSIVE WidthFrom(_, _, _)
WidthFrom(m, pow, bits) ==
    IF m < pow THEN bits ELSE WidthFrom(m, 2 * pow, bits + 1)

Width(m) ==
    IF m >= 1073741824 THEN 31
    ELSE IF m >= 16777216 THEN WidthFrom(m, 33554432, 25)
    ELSE IF m >= 8388608 THEN 24
    ELSE WidthFrom(m, 2, 1)

(* The f32 nearest to s * (m + f) * 2^e, ties to even, where m > 0 and     *)
(* 0 <= f < 1, f > 0 exactly when sticky; sticky only when m has more than *)
(* 24 bits.                                                                *)
f32_round(s, m, e, sticky) ==
    LET shift == Width(m) - 24 IN
    IF shift <= 0 THEN Fin(s, m * 2^(0 - shift), e + shift)
    ELSE LET q == m \div 2^shift
             rem == m % 2^shift
             half == 2^(shift - 1)
             up == rem > half \/ (rem = half /\ (sticky \/ q % 2 = 1))
             q1 == IF up THEN q + 1 ELSE q
         IN  IF q1 = 2^24 THEN Fin(s, 2^23, e + shift + 1) ELSE Fin(s, q1, e + shift)

(* a as f32 / b as f32, for a and b of type usize (here below 32, so that  *)
(* both conversions are exact): a is scaled by 2^k to make the quotient    *)
(* one of 25 or 26 bits.                                                   *)
f32_div(a, b) ==
    IF b = 0 THEN (IF a = 0 THEN NaN ELSE Inf(1))
    ELSE IF a = 0 THEN Zero
    ELSE LET k == 25 + Width(b) - Width(a)
             scaled == a * 2^k
         IN  f32_round(1, scaled \div b, 0 - k, scaled % b # 0)

(* The 48-bit product of two 24-bit mantissas is formed from their 12-bit  *)
(* halves; its top 30 bits and a sticky bit go to f32_round.               *)
f32_mul(x, y) ==
    IF is_nan(x) \/ is_nan(y) THEN NaN
    ELSE IF x.k = "inf" \/ y.k = "inf"
         THEN (IF is_zero(x) \/ is_zero(y) THEN NaN ELSE Inf(x.s * y.s))
    ELSE IF x.m = 0 \/ y.m = 0 THEN Zero
    ELSE LET a == x.m \div 4096
             b == x.m % 4096
             c == y.m \div 4096
             d == y.m % 4096
             low == b * d
             mid == a * d + b * c + (low \div 4096)
             hi == a * c + (mid \div 4096)
             midrem == mid % 4096
         IN  f32_round(x.s * y.s, hi * 64 + (midrem \div 64), x.e + y.e + 18,
                       midrem % 64 # 0 \/ low % 4096 # 0)

(* |x| < |y| for finite x and y *)
mag_lt(x, y) ==
    IF y.m = 0 THEN FALSE
    ELSE IF x.m = 0 THEN TRUE
    ELSE x.e < y.e \/ (x.e = y.e /\ x.m < y.m)

f32_add(x, y) ==
    IF is_nan(x) \/ is_nan(y) THEN NaN
    ELSE IF x.k = "inf" /\ y.k = "inf"
         THEN (IF x.s = y.s THEN x ELSE NaN)
    ELSE IF x.k = "inf" THEN x
    ELSE IF y.k = "inf" THEN y
    ELSE IF x.m = 0 THEN y
    ELSE IF y.m = 0 THEN x
    ELSE LET big == IF mag_lt(x, y) THEN y ELSE x
             small == IF mag_lt(x, y) THEN x ELSE y
             d == big.e - small.e
             sh == IF d < 6 THEN d ELSE 6
             X == big.m * 2^sh
             Y == small.m \div 2^(d - sh)
             sticky == small.m % 2^(d - sh) # 0
         IN  IF d >= 26 THEN big
             ELSE IF x.s = y.s THEN f32_round(big.s, X + Y, big.e - sh, sticky)
             ELSE IF X = Y THEN Zero
             ELSE f32_round(big.s, X - Y - (IF sticky THEN 1 ELSE 0), big.e - sh, sticky)

(* f32::log10 at the quotients n/m of two small usize values, each entry   *)
(* the f32 nearest to the logarithm.                                       *)
Log10Table(x) ==
    CASE x.m = 11184811 /\ x.e = -26 -> Fin(-1, 13055211, -24)     \* 1/6
      [] x.m = 13421773 /\ x.e = -26 -> Fin(-1, 11726771, -24)     \* 1/5
      [] x.m = 8388608  /\ x.e = -25 -> Fin(-1, 10100891, -24)     \* 1/4
      [] x.m = 11184811 /\ x.e = -25 -> Fin(-1, 16009532, -25)     \* 1/3
      [] x.m = 13421773 /\ x.e = -25 -> Fin(-1, 13352651, -25)     \* 2/5
      [] x.m = 8388608  /\ x.e = -24 -> Fin(-1, 10100891, -25)     \* 1/2
      [] x.m = 10066330 /\ x.e = -24 -> Fin(-1, 14888016, -26)     \* 3/5
      [] x.m = 11184811 /\ x.e = -24 -> Fin(-1, 11817283, -26)     \* 2/3
      [] x.m = 12582912 /\ x.e = -24 -> Fin(-1, 16768993, -27)     \* 3/4
      [] x.m = 13421773 /\ x.e = -24 -> Fin(-1, 13007041, -27)     \* 4/5
      [] x.m = 13981013 /\ x.e = -24 -> Fin(-1, 10627528, -27)     \* 5/6
      [] x.m = 8388608  /\ x.e = -23 -> Fin(1, 0, 0)               \* 1/1
      [] x.m = 10066330 /\ x.e = -23 -> Fin(1, 10627529, -27)      \* 6/5
      [] x.m = 10485760 /\ x.e = -23 -> Fin(1, 13007042, -27)      \* 5/4
      [] x.m = 11184811 /\ x.e = -23 -> Fin(1, 16768995, -27)      \* 4/3
      [] x.m = 12582912 /\ x.e = -23 -> Fin(1, 11817284, -26)      \* 3/2
      [] x.m = 13981013 /\ x.e = -23 -> Fin(1, 14888017, -26)      \* 5/3
      [] x.m = 8388608  /\ x.e = -22 -> Fin(1, 10100891, -25)      \* 2/1
      [] x.m = 10485760 /\ x.e = -22 -> Fin(1, 13352651, -25)      \* 5/2
      [] x.m = 12582912 /\ x.e = -22 -> Fin(1, 16009533, -25)      \* 3/1
      [] x.m = 8388608  /\ x.e = -21 -> Fin(1, 10100891, -24)      \* 4/1
      [] x.m = 10485760 /\ x.e = -21 -> Fin(1, 11726771, -24)      \* 5/1
      [] x.m = 12582912 /\ x.e = -21 -> Fin(1, 13055212, -24)      \* 6/1

f32_log10(x) ==
    IF is_nan(x) THEN NaN
    ELSE IF x.k = "inf" THEN (IF x.s > 0 THEN Inf(1) ELSE NaN)
    ELSE IF x.m = 0 THEN Inf(-1)
    ELSE IF x.s < 0 THEN NaN
    ELSE Log10Table(x)

(* x == y and x < y of f32: both false when either side is NaN *)
f32_eq(x, y) == ~is_nan(x) /\ ~is_nan(y) /\ x = y

f32_lt(x, y) ==
    /\ ~is_nan(x) /\ ~is_nan(y)
    /\ IF x.k = "inf" /\ y.k = "inf" THEN x.s < y.s
       ELSE IF x.k = "inf" THEN x.s < 0
       ELSE IF y.k = "inf" THEN y.s > 0
       ELSE IF x.s # y.s THEN x.s < y.s
       ELSE IF x.s > 0 THEN mag_lt(x, y)
       ELSE mag_lt(y, x)

(* partial_cmp(..).unwrap() panics exactly when a side is NaN *)
partial_cmp_is_none(x, y) == is_nan(x) \/ is_nan(y)

---------------------------------------------------------------------------
(* The Model: docs maps a path to a Doc [tf, count, last_modified], df     *)
(* maps a term to a usize.  A map is a function on its set of keys.        *)
(* fault records a panic: "none" while none has happened.                  *)

EmptyMap == <<>>

Get(map, key, default) == IF key \in DOMAIN map THEN map[key] ELSE default

Insert(map, key, value) ==
    [x \in DOMAIN map \cup {key} |-> IF x = key THEN value ELSE map[x]]

Remove(map, key) == [x \in DOMAIN map \ {key} |-> map[x]]

compute_tf(term, doc) ==
    LET b == doc.count
        a == Get(doc.tf, term, 0)
    IN  f32_div(a, b)

(* The value compute_idf divides by: df.get(term).cloned().unwrap_or(1). *)
idf_divisor(term, dfmap) == Get(dfmap, term, 1)

compute_idf(term, n_docs, dfmap) ==
    LET n == n_docs
        m == idf_divisor(term, dfmap)
    IN  f32_log10(f32_div(n, m))

(* remove_document as it would be without the loop over doc.tf.keys(): the *)
(* record is removed and df is left as it was.                            *)
remove_document_keeping_df(m, file_path) ==
    [docs  |-> Remove(m.docs, file_path),
     df    |-> m.df,
     fault |-> m.fault]

(* remove_document as it would be with docs.get in place of docs.remove:   *)
(* df is decremented and the record stays.                                 *)
remove_document_keeping_doc(m, file_path) ==
    IF file_path \in DOMAIN m.docs
    THEN LET hit == DOMAIN m.docs[file_path].tf \cap DOMAIN m.df
         IN  [docs  |-> m.docs,
              df    |-> [t \in DOMAIN m.df |->
                           IF t \in hit /\ m.df[t] > 0 THEN m.df[t] - 1 ELSE m.df[t]],
              fault |-> IF \E t \in hit : m.df[t] = 0 THEN "sub_overflow" ELSE m.fault]
    ELSE m

(* remove_document as it would be with a loop over self.df.values_mut() in *)
(* place of the keys of the removed document: every entry is decremented.  *)
remove_document_every_entry(m, file_path) ==
    IF file_path \in DOMAIN m.docs
    THEN [docs  |-> Remove(m.docs, file_path),
          df    |-> [t \in DOMAIN m.df |->
                       IF m.df[t] > 0 THEN m.df[t] - 1 ELSE m.df[t]],
          fault |-> IF \E t \in DOMAIN m.df : m.df[t] = 0
                    THEN "sub_overflow" ELSE m.fault]
    ELSE m

(* `*f -= 1` for every key of the removed document's tf that df holds.  A  *)
(* decrement of 0 overflows usize: a panic in a debug build, a wrap to     *)
(* usize::MAX in a release build; the model records it in fault and leaves *)
(* the entry, and no operation runs on the model after it.                 *)
remove_document(m, file_path) ==
    IF file_path \in DOMAIN m.docs
    THEN LET doc == m.docs[file_path]
             hit == DOMAIN doc.tf \cap DOMAIN m.df
         IN  [docs  |-> Remove(m.docs, file_path),
              df    |-> [t \in DOMAIN m.df |->
                           IF t \in hit /\ m.df[t] > 0 THEN m.df[t] - 1 ELSE m.df[t]],
              fault |-> IF \E t \in hit : m.df[t] = 0 THEN "sub_overflow" ELSE m.fault]
    ELSE m

(* requires_reindexing as it would be with <= in place of <. *)
requires_reindexing_or_equal(m, file_path, last_modified) ==
    IF file_path \in DOMAIN m.docs
    THEN m.docs[file_path].last_modified <= last_modified
    ELSE TRUE

requires_reindexing(m, file_path, last_modified) ==
    IF file_path \in DOMAIN m.docs
    THEN m.docs[file_path].last_modified < last_modified
    ELSE TRUE

(* The loop as it would be with tf.insert(t, 1) for every token, seen      *)
(* before or not.                                                          *)
TermFreqOverwritten(tokens) ==
    [t \in {tokens[i] : i \in 1..Len(tokens)} |-> 1]

(* The term frequencies of a token sequence: the loop of add_document. *)
TermFreq(tokens) ==
    [t \in {tokens[i] : i \in 1..Len(tokens)} |->
        Cardinality({i \in 1..Len(tokens) : tokens[i] = t})]

(* add_document as it would be without its first statement, the call of    *)
(* remove_document.                                                        *)
add_document_without_remove(m, file_path, last_modified, content) ==
    LET tokens == Lexer(content)
        tf == TermFreq(tokens)
        count == Len(tokens)
    IN  [docs  |-> Insert(m.docs, file_path,
                          [tf |-> tf, count |-> count, last_modified |-> last_modified]),
         df    |-> [t \in DOMAIN m.df \cup DOMAIN tf |->
                       IF t \in DOMAIN tf THEN Get(m.df, t, 0) + 1 ELSE m.df[t]],
         fault |-> m.fault]

(* The loop as it would be over the tokens in place of tf.keys(): df grows  *)
(* by one for each occurrence of a term.                                   *)
add_df_per_occurrence(m, tf) ==
    [docs  |-> m.docs,
     df    |-> [t \in DOMAIN m.df \cup DOMAIN tf |->
                   IF t \in DOMAIN tf THEN Get(m.df, t, 0) + tf[t] ELSE m.df[t]],
     fault |-> m.fault]

(* The loop of add_document over tf.keys(): df counts one more document    *)
(* for each term of tf.                                                    *)
add_df(m, tf) ==
    [docs  |-> m.docs,
     df    |-> [t \in DOMAIN m.df \cup DOMAIN tf |->
                   IF t \in DOMAIN tf THEN Get(m.df, t, 0) + 1 ELSE m.df[t]],
     fault |-> m.fault]

(* self.docs.insert(file_path, Doc {..}), the last statement of            *)
(* add_document.                                                           *)
add_insert(m, file_path, doc) ==
    [docs  |-> Insert(m.docs, file_path, doc),
     df    |-> m.df,
     fault |-> m.fault]

(* The Doc add_document builds from content. *)
NewDoc(last_modified, content) ==
    LET tokens == Lexer(content)
    IN  [tf |-> TermFreq(tokens), count |-> Len(tokens), last_modified |-> last_modified]

add_document(m, file_path, last_modified, content) ==
    LET r == remove_document(m, file_path)
        doc == NewDoc(last_modified, content)
    IN  add_insert(add_df(r, doc.tf), file_path, doc)

---------------------------------------------------------------------------
(* search_query.  order is the order in which `for (path, doc) in          *)
(* &self.docs` visits the documents: a HashMap iterates in an arbitrary    *)
(* order, so the caller chooses it among all the enumerations of the keys. *)

Orders(S) ==
    {o \in [1..Cardinality(S) -> S] : \A i, j \in DOMAIN o : o[i] = o[j] => i = j}

(* rank as it would be with the query's tokens deduplicated: a token that  *)
(* has occurred before adds nothing.                                       *)
RECURSIVE rank_of_distinct_tokens(_, _, _, _)
rank_of_distinct_tokens(m, doc, tokens, k) ==
    IF k = 0 THEN Zero
    ELSE IF \E j \in 1..(k - 1) : tokens[j] = tokens[k]
    THEN rank_of_distinct_tokens(m, doc, tokens, k - 1)
    ELSE LET stemmed == stem(tokens[k])
         IN  f32_add(rank_of_distinct_tokens(m, doc, tokens, k - 1),
                     f32_mul(compute_tf(stemmed, doc),
                             compute_idf(stemmed, Cardinality(DOMAIN m.docs), m.df)))

(* rank after the first k tokens: each token is stemmed once more and      *)
(* tf * idf is added, left to right, starting from 0f32.                   *)
RECURSIVE rank_of(_, _, _, _)
rank_of(m, doc, tokens, k) ==
    IF k = 0 THEN Zero
    ELSE LET stemmed == stem(tokens[k])
         IN  f32_add(rank_of(m, doc, tokens, k - 1),
                     f32_mul(compute_tf(stemmed, doc),
                             compute_idf(stemmed, Cardinality(DOMAIN m.docs), m.df)))

(* The test as it would be without `!rank.is_nan()`: NaN != 0.0 is true.   *)
is_match_nonzero(rank) == ~f32_eq(rank, Zero)

(* The test as it would be without `rank != 0.0`. *)
is_match_any_number(rank) == ~is_nan(rank)

(* if !rank.is_nan() && rank != 0.0 *)
is_match(rank) == ~is_nan(rank) /\ ~f32_eq(rank, Zero)

(* slice::sort_by, a stable sort, by insertion: e goes behind every        *)
(* element that is not greater than it.                                    *)
RECURSIVE insert_sorted(_, _)
insert_sorted(s, e) ==
    IF s = <<>> THEN <<e>>
    ELSE IF f32_lt(e.rank, s[Len(s)].rank)
         THEN insert_sorted(SubSeq(s, 1, Len(s) - 1), e) \o <<s[Len(s)]>>
         ELSE s \o <<e>>

RECURSIVE sort_by(_)
sort_by(s) ==
    IF s = <<>> THEN <<>>
    ELSE insert_sorted(sort_by(SubSeq(s, 1, Len(s) - 1)), s[Len(s)])

(* No reversal: the ascending order of sort_by is kept. *)
reverse_omitted(s) == s

reverse(s) == [i \in 1..Len(s) |-> s[Len(s) + 1 - i]]

(* pushed as it would be with the query taken as one term as it is typed,  *)
(* in place of the tokens the Lexer yields for it.                         *)
pushed_raw_query(m, query, order) ==
    LET tokens == IF query = <<>> THEN <<>> ELSE <<query>>
        scored == [i \in 1..Len(order) |->
                     [path |-> order[i],
                      rank |-> rank_of(m, m.docs[order[i]], tokens, Len(tokens))]]
        Keep(e) == is_match(e.rank)
    IN  SelectSeq(scored, Keep)

(* The Vec the loop pushes to, before it is sorted. *)
pushed(m, query, order) ==
    LET tokens == Lexer(query)
        scored == [i \in 1..Len(order) |->
                     [path |-> order[i],
                      rank |-> rank_of(m, m.docs[order[i]], tokens, Len(tokens))]]
        Keep(e) == is_match(e.rank)
    IN  SelectSeq(scored, Keep)

(* The unwrap in the comparator panics when two elements are compared and  *)
(* one of them is NaN: a sort of two or more elements compares each.       *)
sort_panics(s) ==
    \E i, j \in 1..Len(s) : i # j /\ partial_cmp_is_none(s[i].rank, s[j].rank)

(* search_query as it would be with the caller's truncation (take) moved   *)
(* into it, here to the best result.                                       *)
search_query_truncated(m, query, order) ==
    LET result == pushed(m, query, order)
        sorted == reverse(sort_by(result))
    IN  IF sort_panics(result)
        THEN [hits |-> <<>>, fault |-> "unwrap_none"]
        ELSE [hits |-> IF Len(sorted) > 1 THEN <<sorted[1]>> ELSE sorted,
              fault |-> m.fault]

search_query(m, query, order) ==
    LET result == pushed(m, query, order)
    IN  IF sort_panics(result)
        THEN [hits |-> <<>>, fault |-> "unwrap_none"]
        ELSE [hits |-> reverse(sort_by(result)), fault |-> m.fault]

---------------------------------------------------------------------------
(* The indexing pass of main.rs, tf_index_of_folder, over a directory tree *)
(* of four files, two of them in a subdirectory.   walk.stack holds one    *)
(* frame per call of tf_index_of_folder that has not returned: its         *)
(* directory and the number of the entry its loop is at.  walk.failed      *)
(* (the files whose text could not be extracted) and walk.listing (an      *)
(* error of the directory listing has happened) record what went wrong.    *)

DirEntries(dir) ==
    CASE dir = "root" -> <<"f1", "sub", "f2">>
      [] dir = "sub"  -> <<"f3", "f4">>

IsDir(path) == path \in {"root", "sub"}

Files == {"f1", "f2", "f3", "f4"}

WalkNew ==
    [stack |-> <<>>, tf_index |-> EmptyMap, status |-> "new",
     failed |-> {}, listing |-> FALSE]

(* `?` on an error: every call on the stack returns Err(()). *)
walk_err(w) == [w EXCEPT !.stack = <<>>, !.status = "err"]

(* What can happen to an entry: the entry or its type cannot be read; a    *)
(* directory can or cannot be opened; a file can or cannot be parsed.      *)
Outcomes(w) ==
    LET top == w.stack[Len(w.stack)]
        entries == DirEntries(top.dir)
    IN  IF top.next > Len(entries) THEN {"ok"}
        ELSE IF IsDir(entries[top.next])
             THEN {"entry_err", "type_err", "read_dir_err", "ok"}
             ELSE {"entry_err", "type_err", "parse_err", "ok"}

(* The step as it would be with `?` on the result of parse_xml_file. *)
tf_index_of_folder_step_strict(w, outcome, content) ==
    LET depth == Len(w.stack)
        top == w.stack[depth]
        entries == DirEntries(top.dir)
        advanced == [w EXCEPT !.stack[depth].next = top.next + 1]
    IN  IF top.next > Len(entries)
        THEN [w EXCEPT !.stack = SubSeq(@, 1, depth - 1),
                       !.status = IF depth = 1 THEN "ok" ELSE @]
        ELSE LET file_path == entries[top.next]
             IN  IF outcome \in {"entry_err", "type_err", "read_dir_err"}
                 THEN [walk_err(w) EXCEPT !.listing = TRUE]
                 ELSE IF IsDir(file_path)
                 THEN [advanced EXCEPT !.stack = Append(@, [dir |-> file_path, next |-> 1])]
                 ELSE IF outcome = "parse_err"
                 THEN [walk_err(w) EXCEPT !.failed = @ \cup {file_path}]
                 ELSE [advanced EXCEPT
                         !.tf_index = Insert(@, file_path, TermFreq(main_Lexer(content)))]

(* One iteration of the loop `'next_file: for file in dir` of the call on  *)
(* top of the stack, or its return of Ok(()) when the loop is over.        *)
tf_index_of_folder_step(w, outcome, content) ==
    LET depth == Len(w.stack)
        top == w.stack[depth]
        entries == DirEntries(top.dir)
        advanced == [w EXCEPT !.stack[depth].next = top.next + 1]
    IN  IF top.next > Len(entries)
        THEN [w EXCEPT !.stack = SubSeq(@, 1, depth - 1),
                       !.status = IF depth = 1 THEN "ok" ELSE @]
        ELSE LET file_path == entries[top.next]
             IN  IF outcome \in {"entry_err", "type_err", "read_dir_err"}
                 THEN [walk_err(w) EXCEPT !.listing = TRUE]
                 ELSE IF IsDir(file_path)
                 THEN [advanced EXCEPT !.stack = Append(@, [dir |-> file_path, next |-> 1])]
                 ELSE IF outcome = "parse_err"
                 THEN [advanced EXCEPT !.failed = @ \cup {file_path}]
                 ELSE [advanced EXCEPT
                         !.tf_index = Insert(@, file_path, TermFreq(main_Lexer(content)))]

---------------------------------------------------------------------------
(* The state machine.  docs, df and fault are the Model.  last is the call *)
(* that has just run and not yet returned to its caller ("idle" between    *)
(* calls; had: the path was stored when the call was made), hits what      *)
(* search_query returned, stale what requires_reindexing returned.         *)
(* history is a history variable: for each path, whether add_document has *)
(* never stored it ("never"), stored it last with timestamp ts ("added"),  *)
(* or remove_document has removed it since ("removed").                    *)

Cur == [docs |-> docs, df |-> df, fault |-> fault]

(* A Lexer over its input: content is what is left of it.  The other       *)
(* fields record the calls of next: the terms yielded, what the last call  *)
(* returned ("some", "none" or "panic"; "new" before the first), and the   *)
(* number of calls that returned None.                                     *)
LexerNew(input) ==
    [input |-> input, content |-> input, yielded |-> <<>>, returned |-> "new",
     nones |-> 0]

(* Iterator::next, one call. *)
LexerNextCall ==
    /\ lexer.returned # "panic"
    /\ lexer.nones < 2
    /\ LET t == next_token(lexer.content)
       IN  lexer' = [lexer EXCEPT
                       !.content = t.rest,
                       !.yielded = IF t.some THEN Append(@, t.token) ELSE @,
                       !.returned = IF t.oob THEN "panic"
                                    ELSE IF t.some THEN "some" ELSE "none",
                       !.nones = IF t.some \/ t.oob THEN @ ELSE @ + 1]
    /\ UNCHANGED <<docs, df, fault, last, hits, stale, history, mutex, server, indexer, walk>>

Idle == [op |-> "idle", path |-> 0, ts |-> 0, text |-> <<>>, had |-> FALSE]

Call(op, p, ts, text) ==
    [op |-> op, path |-> p, ts |-> ts, text |-> text, had |-> p \in DOMAIN docs]

(* Model::default(), before any call. *)
InitModel ==
    /\ docs = EmptyMap
    /\ df = EmptyMap
    /\ fault = "none"
    /\ last = Idle
    /\ hits = <<>>
    /\ stale = FALSE
    /\ history = [p \in Paths |-> [st |-> "never", ts |-> 0]]

(* The Model shared by two threads as an Arc<Mutex<Model>>: the server     *)
(* (start, serve_api_search) and the indexing thread.  mutex.holder is the *)
(* thread whose MutexGuard is alive, "none" when there is none; a guard    *)
(* dropped by a panic leaves the Mutex poisoned, and lock() on a poisoned  *)
(* Mutex returns an Err, on which unwrap panics.                           *)

ResultLimit == 20

MutexNew == [holder |-> "none", poisoned |-> FALSE]

(* Dropping the guard: at the end of its scope, or while a panic unwinds. *)
drop_guard(mx, panicking) ==
    [holder |-> "none", poisoned |-> mx.poisoned \/ panicking]

(* The server between two requests, in `for request in                     *)
(* server.incoming_requests()`.                                            *)
ServerIdle == [pc |-> "accept", body |-> <<>>, results |-> <<>>]

(* The indexing thread between two files. *)
IndexerIdle == [pc |-> "idle", op |-> "none", path |-> 0, content |-> <<>>]

(* The server and the indexing thread before they start. *)
InitThreads ==
    /\ mutex = MutexNew
    /\ server = ServerIdle
    /\ indexer = IndexerIdle

Init ==
    /\ InitModel
    /\ lexer = LexerNew(<<>>)
    /\ InitThreads
    /\ walk = WalkNew

AddDocument(p, ts, content) ==
    /\ last.op = "idle"
    /\ fault = "none"
    /\ LET m == add_document(Cur, p, ts, content)
       IN  /\ docs' = m.docs
           /\ df' = m.df
           /\ fault' = m.fault
    /\ last' = Call("add", p, ts, content)
    /\ history' = [history EXCEPT ![p] = [st |-> "added", ts |-> ts]]
    /\ UNCHANGED <<hits, stale, lexer, mutex, server, indexer, walk>>

RemoveDocument(p) ==
    /\ last.op = "idle"
    /\ fault = "none"
    /\ LET m == remove_document(Cur, p)
       IN  /\ docs' = m.docs
           /\ df' = m.df
           /\ fault' = m.fault
    /\ last' = Call("remove", p, 0, <<>>)
    /\ history' = IF p \in DOMAIN docs
                  THEN [history EXCEPT ![p] = [st |-> "removed", ts |-> 0]]
                  ELSE history
    /\ UNCHANGED <<hits, stale, lexer, mutex, server, indexer, walk>>

RequiresReindexing(p, ts) ==
    /\ last.op = "idle"
    /\ fault = "none"
    /\ stale' = requires_reindexing(Cur, p, ts)
    /\ last' = Call("reindex", p, ts, <<>>)
    /\ UNCHANGED <<docs, df, fault, history, hits, lexer, mutex, server, indexer, walk>>

SearchQuery(query, order) ==
    /\ last.op = "idle"
    /\ fault = "none"
    /\ LET r == search_query(Cur, query, order)
       IN  /\ hits' = r.hits
           /\ fault' = r.fault
    /\ last' = Call("search", 0, 0, query)
    /\ UNCHANGED <<docs, df, history, stale, lexer, mutex, server, indexer, walk>>

(* add_document for one path more than Paths holds, of which history keeps *)
(* nothing.                                                                *)
AddFurtherDocument(content) ==
    /\ last.op = "idle"
    /\ fault = "none"
    /\ LET m == add_document(Cur, NumPaths + 1, 0, content)
       IN  /\ docs' = m.docs
           /\ df' = m.df
           /\ fault' = m.fault
    /\ last' = Call("add", NumPaths + 1, 0, content)
    /\ UNCHANGED <<history, hits, stale, lexer, mutex, server, indexer, walk>>

(* The call returns: its caller has taken the result. *)
Return ==
    /\ last.op # "idle"
    /\ last' = Idle
    /\ hits' = <<>>
    /\ stale' = FALSE
    /\ UNCHANGED <<docs, df, fault, history, lexer, mutex, server, indexer, walk>>

---------------------------------------------------------------------------
(* The steps of the two threads.                                           *)

others == <<last, hits, stale, history, lexer, walk>>

(* A POST /api/search arrives with body as its body. *)
ServerAccept(body) ==
    /\ server.pc = "accept"
    /\ server' = [server EXCEPT !.pc = "read", !.body = body]
    /\ UNCHANGED <<docs, df, fault, mutex, indexer, others>>

(* read_to_end and from_utf8: on an error serve_api_search returns Err     *)
(* before the lock is taken.                                               *)
ServerRead(ok) ==
    /\ server.pc = "read"
    /\ server' = IF ok THEN [server EXCEPT !.pc = "lock"] ELSE ServerIdle
    /\ UNCHANGED <<docs, df, fault, mutex, indexer, others>>

(* The search started on the Model without taking the lock. *)
ServerLockSkipped ==
    /\ server.pc = "lock"
    /\ server' = [server EXCEPT !.pc = "search"]
    /\ UNCHANGED <<docs, df, fault, mutex, indexer, others>>

(* model.lock().unwrap(): waits until no guard is alive. *)
ServerLock ==
    /\ server.pc = "lock"
    /\ mutex.holder = "none"
    /\ IF mutex.poisoned
       THEN /\ server' = [server EXCEPT !.pc = "panicked"]
            /\ UNCHANGED mutex
       ELSE /\ server' = [server EXCEPT !.pc = "search"]
            /\ mutex' = [mutex EXCEPT !.holder = "server"]
    /\ UNCHANGED <<docs, df, fault, indexer, others>>

(* model.search_query(&body)?, under the guard. *)
ServerSearch(order) ==
    /\ server.pc = "search"
    /\ LET r == search_query(Cur, server.body, order)
       IN  IF r.fault # "none"
           THEN /\ server' = [server EXCEPT !.pc = "panicked"]
                /\ mutex' = drop_guard(mutex, TRUE)
           ELSE /\ server' = [server EXCEPT !.pc = "json", !.results = r.hits]
                /\ UNCHANGED mutex
    /\ UNCHANGED <<docs, df, fault, indexer, others>>

(* serde_json::to_string of the first ResultLimit results; it fails on a   *)
(* path that is not UTF-8.                                                 *)
ServerJson(ok) ==
    /\ server.pc = "json"
    /\ server' = IF ok
                 THEN [server EXCEPT
                         !.pc = "respond",
                         !.results = SubSeq(@, 1, IF Len(@) < ResultLimit
                                                  THEN Len(@) ELSE ResultLimit)]
                 ELSE [server EXCEPT !.pc = "serve_500"]
    /\ UNCHANGED <<docs, df, fault, mutex, indexer, others>>

(* return serve_500(request): the response is written, with either         *)
(* outcome the function returns and the guard is dropped.                  *)
ServerServe500 ==
    /\ server.pc = "serve_500"
    /\ server' = ServerIdle
    /\ mutex' = drop_guard(mutex, FALSE)
    /\ UNCHANGED <<docs, df, fault, indexer, others>>

(* request.respond(..).unwrap(): the response is written to the client;    *)
(* Ok(()) is returned and the guard dropped, or the write fails and unwrap *)
(* panics, out of serve_api_search and out of the loop of start.           *)
ServerRespond(ok) ==
    /\ server.pc = "respond"
    /\ server' = IF ok THEN ServerIdle ELSE [server EXCEPT !.pc = "panicked"]
    /\ mutex' = drop_guard(mutex, ~ok)
    /\ UNCHANGED <<docs, df, fault, indexer, others>>

(* The indexing thread has read a file (or found one gone) and is about to *)
(* update the Model.                                                       *)
IndexerPick(op, p, content) ==
    /\ indexer.pc = "idle"
    /\ fault = "none"
    /\ indexer' = [pc |-> "lock", op |-> op, path |-> p, content |-> content]
    /\ UNCHANGED <<docs, df, fault, mutex, server, others>>

(* The lock is taken as the server takes it. *)
IndexerLock ==
    /\ indexer.pc = "lock"
    /\ mutex.holder = "none"
    /\ IF mutex.poisoned
       THEN /\ indexer' = [indexer EXCEPT !.pc = "panicked"]
            /\ UNCHANGED mutex
       ELSE /\ indexer' = [indexer EXCEPT !.pc = "remove"]
            /\ mutex' = [mutex EXCEPT !.holder = "indexer"]
    /\ UNCHANGED <<docs, df, fault, server, others>>

(* remove_document(path): all of it for a removal, after which the guard   *)
(* is dropped, and the first statement of add_document otherwise.          *)
IndexerRemove ==
    /\ indexer.pc = "remove"
    /\ LET m == remove_document(Cur, indexer.path)
       IN  /\ docs' = m.docs
           /\ df' = m.df
           /\ fault' = m.fault
           /\ IF m.fault # "none"
              THEN /\ indexer' = [indexer EXCEPT !.pc = "panicked"]
                   /\ mutex' = drop_guard(mutex, TRUE)
              ELSE IF indexer.op = "remove"
              THEN /\ indexer' = IndexerIdle
                   /\ mutex' = drop_guard(mutex, FALSE)
              ELSE /\ indexer' = [indexer EXCEPT !.pc = "df"]
                   /\ UNCHANGED mutex
    /\ UNCHANGED <<server, others>>

(* add_document, its loop over tf.keys(). *)
IndexerDf ==
    /\ indexer.pc = "df"
    /\ df' = add_df(Cur, NewDoc(0, indexer.content).tf).df
    /\ indexer' = [indexer EXCEPT !.pc = "insert"]
    /\ UNCHANGED <<docs, fault, mutex, server, others>>

(* add_document, its docs.insert; then the guard is dropped. *)
IndexerInsert ==
    /\ indexer.pc = "insert"
    /\ docs' = add_insert(Cur, indexer.path, NewDoc(0, indexer.content)).docs
    /\ indexer' = IndexerIdle
    /\ mutex' = drop_guard(mutex, FALSE)
    /\ UNCHANGED <<df, fault, server, others>>

(* entry: tf_index_of_folder(dir_path, &mut tf_index) is called; its       *)
(* fs::read_dir succeeds or fails.                                         *)
WalkStart(ok) ==
    /\ walk.status = "new"
    /\ walk' = IF ok
               THEN [walk EXCEPT !.status = "running",
                                 !.stack = <<[dir |-> "root", next |-> 1]>>]
               ELSE [walk_err(walk) EXCEPT !.listing = TRUE]
    /\ UNCHANGED <<docs, df, fault, last, hits, stale, history, lexer,
                   mutex, server, indexer>>

WalkStep(outcome, content) ==
    /\ walk.status = "running"
    /\ outcome \in Outcomes(walk)
    /\ walk' = tf_index_of_folder_step(walk, outcome, content)
    /\ UNCHANGED <<docs, df, fault, last, hits, stale, history, lexer,
                   mutex, server, indexer>>

---------------------------------------------------------------------------
(* Inputs.  The texts documents are indexed from: nothing, white space     *)
(* alone, and words separated by white space.  A query is up to            *)
(* MaxQueryWords words separated by one space.                             *)

Contents ==
    { <<>>,
      <<" ", "\t">>,
      <<"a">>,
      <<"A", "b", "s">>,
      <<"a", " ", "A", "b", "s">>,
      <<"a", " ", "a", "\t", "A", "b", "s">> }

Words == { <<"a">>, <<"A", "b", "s">> }

RECURSIVE Join(_)
Join(ws) ==
    IF Len(ws) = 0 THEN <<>>
    ELSE IF Len(ws) = 1 THEN ws[1]
    ELSE ws[1] \o <<" ">> \o Join(Tail(ws))

Queries == UNION {{Join(ws) : ws \in [1..k -> Words]} : k \in 0..MaxQueryWords}

(* The index and its maintenance. *)
Next ==
    \/ \E p \in Paths, ts \in Timestamps, c \in Contents : AddDocument(p, ts, c)
    \/ \E p \in Paths : RemoveDocument(p)
    \/ \E p \in Paths, ts \in Timestamps : RequiresReindexing(p, ts)
    \/ Return

Spec == Init /\ [][Next]_vars

(* The index under queries: documents are added with one timestamp.        *)
NextSearch ==
    \/ \E p \in Paths, c \in Contents : AddDocument(p, 0, c)
    \/ \E p \in Paths : RemoveDocument(p)
    \/ \E q \in Queries, o \in Orders(DOMAIN docs) : SearchQuery(q, o)
    \/ Return

SpecSearch == Init /\ [][NextSearch]_vars

(* The index of NumPaths + 1 documents, each empty, of one word or of two,  *)
(* under the queries of one word and of both words.                        *)
SortContents == { <<>>, <<"a">>, <<"a", " ", "A", "b", "s">> }

SortQueries == Words \cup {Join(ws) : ws \in Orders(Words)}

NextSort ==
    \/ \E p \in Paths, c \in SortContents : AddDocument(p, 0, c)
    \/ \E c \in SortContents : AddFurtherDocument(c)
    \/ \E p \in Paths : RemoveDocument(p)
    \/ \E q \in SortQueries, o \in Orders(DOMAIN docs) : SearchQuery(q, o)
    \/ Return

SpecSort == Init /\ [][NextSort]_vars

(* The index of one-word documents under one-word queries: a word is a run *)
(* of letters (of either case, ASCII or not, plural or not), a run of      *)
(* digits, or one other character.                                         *)
WordInputs ==
    { <<"A", "b", "s">>,
      <<"a", "b">>,
      <<"S", "s">>,
      <<"U+00C9", "a">>,
      <<"7", "0">>,
      <<".">> }

NextTerms ==
    \/ \E p \in Paths, w \in WordInputs : AddDocument(p, 0, w)
    \/ \E p \in Paths : RemoveDocument(p)
    \/ \E w \in WordInputs, o \in Orders(DOMAIN docs) : SearchQuery(w, o)
    \/ Return

SpecTerms == Init /\ [][NextTerms]_vars

(* One Lexer over each text of up to MaxLen characters, called until it    *)
(* has returned None twice.                                                *)
LexChars == {"a", "s", "S", "U+00C9", "U+00E9", "7", " ", "."}

LexInputs == UNION {[1..n -> LexChars] : n \in 0..MaxLen}

InitLexer ==
    /\ InitModel
    /\ InitThreads
    /\ walk = WalkNew
    /\ lexer \in {LexerNew(input) : input \in LexInputs}

NextLexer == LexerNextCall

SpecLexer == InitLexer /\ [][NextLexer]_vars

(* The texts of the files of the tree, and of the queries and documents of *)
(* the threads.                                                            *)
ThreadContents == { <<"a">>, <<"A", "b", "s">> }

(* An indexing pass over the directory tree. *)
WalkOutcomes == {"entry_err", "type_err", "read_dir_err", "parse_err", "ok"}

NextWalk ==
    \/ \E ok \in BOOLEAN : WalkStart(ok)
    \/ \E outcome \in WalkOutcomes, c \in ThreadContents : WalkStep(outcome, c)

SpecWalk == Init /\ [][NextWalk]_vars

(* The server answering queries while the indexing thread adds and removes *)
(* documents.                                                              *)
NextThreads ==
    \/ \E q \in ThreadContents : ServerAccept(q)
    \/ \E ok \in BOOLEAN : ServerRead(ok)
    \/ ServerLock
    \/ \E o \in Orders(DOMAIN docs) : ServerSearch(o)
    \/ \E ok \in BOOLEAN : ServerJson(ok)
    \/ ServerServe500
    \/ \E ok \in BOOLEAN : ServerRespond(ok)
    \/ \E p \in Paths, c \in ThreadContents : IndexerPick("add", p, c)
    \/ \E p \in Paths : IndexerPick("remove", p, <<>>)
    \/ IndexerLock
    \/ IndexerRemove
    \/ IndexerDf
    \/ IndexerInsert

SpecThreads == Init /\ [][NextThreads]_vars

---------------------------------------------------------------------------
(* What the properties below speak of.                                     *)

(* The terms search_query looks up for a query: each token, stemmed. *)
QueryTerms(query) ==
    LET tokens == Lexer(query) IN [i \in 1..Len(tokens) |-> stem(tokens[i])]

(* The stored documents whose tf holds term t. *)
Containing(t) == {p \in DOMAIN docs : t \in DOMAIN docs[p].tf}

HitPaths == {hits[i].path : i \in 1..Len(hits)}

(* The terms of the words, and every term df has an entry for. *)
KnownTerms == DOMAIN df \cup {QueryTerms(w)[1] : w \in Words}

(* The score search_query sums for a stored document. *)
Score(p, query) ==
    LET tokens == Lexer(query) IN rank_of(Cur, docs[p], tokens, Len(tokens))

(* What one occurrence of term t in a query adds to the score of p. *)
Contribution(t, p) ==
    f32_mul(compute_tf(t, docs[p]), compute_idf(t, Cardinality(DOMAIN docs), df))

f32_ge(x, y) == f32_lt(y, x) \/ f32_eq(x, y)

(* The sum of the values of a map. *)
RECURSIVE SumValues(_)
SumValues(map) ==
    IF DOMAIN map = {} THEN 0
    ELSE LET key == CHOOSE x \in DOMAIN map : TRUE
         IN  map[key] + SumValues(Remove(map, key))

(* x + x, which is 2 * x without rounding. *)
Twice(x) == f32_add(x, x)

(* The query q, white space, and q again. *)
Doubled(query) == query \o <<" ">> \o query

(* The tokens of the query that add something other than 0.0 to the score  *)
(* of p.                                                                   *)
Contributing(p, query) ==
    {k \in 1..Len(QueryTerms(query)) :
        ~f32_eq(Contribution(QueryTerms(query)[k], p), Zero)}

(* The lower case of a letter, ASCII or not (char::to_lowercase). *)
to_lowercase(x) == IF x = "U+00C9" THEN "U+00E9" ELSE to_ascii_lowercase(x)

(* The runs of letters that differ from w in letter case at most. *)
CaseVariants(w) ==
    {v \in [1..Len(w) -> Alphabetic] :
        \A i \in 1..Len(w) : to_lowercase(v[i]) = to_lowercase(w[i])}

---------------------------------------------------------------------------
(* C1: after any sequence of add_document and remove_document calls, for   *)
(* every term t in the tf of a stored Doc, df[t] is the number of stored   *)
(* Docs whose tf holds t.                                                  *)
C1_DfCountsDocuments ==
    \A p \in DOMAIN docs : \A t \in DOMAIN docs[p].tf :
        t \in DOMAIN df /\ df[t] = Cardinality(Containing(t))

(* A stored path has been added again while another path is removed, one   *)
(* term is left with df 0 and another is counted.                          *)
C1_Witness ==
    /\ last.op = "add" /\ last.had
    /\ \E p \in Paths : history[p].st = "removed"
    /\ \E t \in DOMAIN df : df[t] = 0
    /\ \E t \in DOMAIN df : df[t] >= 1 /\ Containing(t) # {}

(* C2: add_document is idempotent: right after add_document(id,            *)
(* last_modified, content), the same call again leaves docs (tf, count,    *)
(* last_modified of every document) and every df entry as they are.        *)
C2_AddIdempotent ==
    last.op = "add" =>
        LET again == add_document(Cur, last.path, last.ts, last.text)
        IN  again.docs = docs /\ again.df = df

(* add_document has run on a path that was stored, with content that has   *)
(* terms.                                                                  *)
C2_Witness ==
    /\ last.op = "add" /\ last.had
    /\ docs[last.path].count >= 2
    /\ Cardinality(DOMAIN docs) >= 2

(* C3: requires_reindexing(id, ts2) returns true when id was never added   *)
(* or was removed since; when the most recent add_document of id stored    *)
(* ts it returns true exactly when ts < ts2 (false for ts2 = ts and for    *)
(* ts2 earlier); the call changes neither docs nor df.                     *)
C3_Staleness ==
    [][(last.op = "idle" /\ last'.op = "reindex") =>
         LET h == history[last'.path]
         IN  /\ h.st # "added" => stale' = TRUE
             /\ h.st = "added" => stale' = (h.ts < last'.ts)
             /\ docs' = docs
             /\ df' = df]_vars

(* requires_reindexing has answered false for the very timestamp stored,   *)
(* while another stored document is older than that timestamp.             *)
C3_Witness ==
    /\ last.op = "reindex"
    /\ history[last.path].st = "added"
    /\ history[last.path].ts = last.ts
    /\ ~stale
    /\ \E p \in DOMAIN docs : docs[p].last_modified < last.ts

(* C4: remove_document(d) of a stored d lowers df[t] by exactly one for    *)
(* every term t of the removed record and leaves every other df entry as   *)
(* it was; and no search_query made while d is removed and not added again *)
(* returns d.                                                              *)
C4_Removal ==
    [][/\ (last.op = "idle" /\ last'.op = "remove" /\ last'.had) =>
            LET old == docs[last'.path].tf
            IN  /\ last'.path \notin DOMAIN docs'
                /\ DOMAIN old \subseteq DOMAIN df
                /\ DOMAIN df' = DOMAIN df
                /\ \A t \in DOMAIN df :
                       df'[t] = IF t \in DOMAIN old THEN df[t] - 1 ELSE df[t]
       /\ last'.op = "search" =>
            \A i \in 1..Len(hits') : history'[hits'[i].path].st # "removed"]_vars

(* A query has been answered while a document is removed, for a term that  *)
(* the removal left with df 0, over an index that still holds a document.  *)
C4_Witness ==
    /\ last.op = "search"
    /\ \E p \in Paths : history[p].st = "removed"
    /\ DOMAIN docs # {}
    /\ Len(QueryTerms(last.text)) >= 1
    /\ \A k \in 1..Len(QueryTerms(last.text)) :
          QueryTerms(last.text)[k] \in DOMAIN df /\ df[QueryTerms(last.text)[k]] = 0

(* C5: a document that holds none of the query's terms is never returned;  *)
(* for a query of a single term t over an index where some stored document *)
(* lacks t, the result is exactly the stored documents that hold t.        *)
C5_SingleTermMatches ==
    last.op = "search" =>
        LET terms == QueryTerms(last.text)
        IN  /\ \A p \in HitPaths : \E k \in 1..Len(terms) : terms[k] \in DOMAIN docs[p].tf
            /\ (Len(terms) = 1 /\ Containing(terms[1]) # DOMAIN docs)
                  => HitPaths = Containing(terms[1])

(* A single-term query has returned a document while another stored        *)
(* document lacks the term.                                                *)
C5_Witness ==
    /\ last.op = "search"
    /\ Len(QueryTerms(last.text)) = 1
    /\ Containing(QueryTerms(last.text)[1]) # DOMAIN docs
    /\ HitPaths # {}

(* C6: a query term t whose df entry is 0 adds exactly 0 to the score of   *)
(* every document (stated here of the documents that have terms), so a     *)
(* query of t and another term u returns every document whose tf * idf for *)
(* u is a number other than 0.                                             *)
C6_ZeroDfTermAddsNothing ==
    last.op = "search" =>
        LET terms == QueryTerms(last.text)
        IN  \A k \in 1..Len(terms) :
              (terms[k] \in DOMAIN df /\ df[terms[k]] = 0) =>
                 /\ \A p \in DOMAIN docs :
                       docs[p].count > 0 => f32_eq(Contribution(terms[k], p), Zero)
                 /\ \A j \in 1..Len(terms), p \in DOMAIN docs :
                       (Len(terms) = 2 /\ j # k /\ is_match(Contribution(terms[j], p)))
                          => p \in HitPaths

(* C7: with at least one document stored, compute_idf divides by at least  *)
(* 1 and its result is finite, for every term: stored, unseen, or with a   *)
(* df entry of 0.                                                          *)
C7_IdfDivisorAtLeastOne ==
    DOMAIN docs # {} =>
        \A t \in KnownTerms :
            /\ idf_divisor(t, df) >= 1
            /\ compute_idf(t, Cardinality(DOMAIN docs), df).k = "fin"

(* C8: compute_tf is 0 for every term on a record whose count is 0.        *)
C8_TfOfEmptyDocumentIsZero ==
    \A p \in DOMAIN docs :
        docs[p].count = 0 => \A t \in KnownTerms : f32_eq(compute_tf(t, docs[p]), Zero)

(* C9: search_query returns, once each, every stored document whose summed *)
(* score is neither NaN nor 0.0, with that score, and no other document.   *)
C9_FullFilteredSet ==
    last.op = "search" =>
        LET Matching == {p \in DOMAIN docs :
                            /\ ~is_nan(Score(p, last.text))
                            /\ ~f32_eq(Score(p, last.text), Zero)}
        IN  /\ HitPaths = Matching
            /\ Len(hits) = Cardinality(Matching)
            /\ \A i \in 1..Len(hits) : hits[i].rank = Score(hits[i].path, last.text)

(* A query has returned two documents of equal score, both kept.           *)
C9_Witness ==
    /\ last.op = "search"
    /\ Len(hits) >= 2
    /\ f32_eq(hits[1].rank, hits[2].rank)

(* C10: the results are in descending order of score: each score is        *)
(* greater than or equal to the next.                                      *)
C10_DescendingScores ==
    last.op = "search" =>
        \A i \in 1..(Len(hits) - 1) : f32_ge(hits[i].rank, hits[i + 1].rank)

(* A query has returned two documents of different scores.                 *)
C10_Witness ==
    /\ last.op = "search"
    /\ Len(hits) >= 2
    /\ f32_lt(hits[2].rank, hits[1].rank)

C12_CaseInsensitive ==
    (/\ lexer.returned = "none"
     /\ lexer.input # <<>>
     /\ \A i \in 1..Len(lexer.input) : is_alphabetic(lexer.input[i]))
        => \A v \in CaseVariants(lexer.input) : Lexer(v) = lexer.yielded

(* C13: every call of next that returns a term has consumed at least one   *)
(* character, so the terms yielded never outnumber the characters of the   *)
(* input; a call on empty content returns None, a call after None returns  *)
(* None again and yields nothing; no call panics on an index.              *)
C13_LexerTerminates ==
    [][lexer' # lexer =>
         /\ lexer'.returned # "panic"
         /\ lexer'.returned = "some" => Len(lexer'.content) < Len(lexer.content)
         /\ Len(lexer'.yielded) + Len(lexer'.content) <= Len(lexer.input)
         /\ lexer.content = <<>> => lexer'.returned = "none"
         /\ lexer.returned = "none" =>
                lexer'.returned = "none" /\ lexer'.yielded = lexer.yielded]_vars

(* A Lexer has yielded a term of two characters and a term of another      *)
(* character from an input with white space, and has returned None twice.  *)
C13_Witness ==
    /\ lexer.nones = 2
    /\ Len(lexer.yielded) >= 2
    /\ \E i \in 1..Len(lexer.input) : is_whitespace(lexer.input[i])
    /\ \E i \in 1..Len(lexer.yielded) : Len(lexer.yielded[i]) >= 2
    /\ \E i \in 1..Len(lexer.yielded) : lexer.yielded[i] = <<".">>

(* Every df entry counts the stored documents that hold its term, and     *)
(* every term of a stored document has one.                                *)
DfMatchesDocs ==
    /\ \A t \in DOMAIN df : df[t] = Cardinality(Containing(t))
    /\ \A p \in DOMAIN docs : DOMAIN docs[p].tf \subseteq DOMAIN df

(* C14: every search_query runs on the Model as it is before or after each *)
(* add_document and remove_document of the indexing thread, never between  *)
(* the update of df and the insertion or removal of the record.            *)
C14_SearchSeesNoPartialUpdate ==
    server.pc = "search" =>
        /\ indexer.pc \in {"idle", "lock", "panicked"}
        /\ DfMatchesDocs

(* A query is about to search a Model that holds documents while the       *)
(* indexing thread waits for the lock with a document to add again.        *)
C14_Witness ==
    /\ server.pc = "search"
    /\ indexer.pc = "lock" /\ indexer.op = "add" /\ indexer.path \in DOMAIN docs
    /\ \E t \in DOMAIN df : df[t] = 0

(* C15: after serve_api_search has exited, by a return or by a panic, the  *)
(* lock can be taken again: no guard of the server is alive and lock()     *)
(* succeeds.                                                               *)
C15_LockReleasedOnEveryExit ==
    server.pc \in {"accept", "panicked"} =>
        mutex.holder # "server" /\ ~mutex.poisoned

(* C16: the server does not hold the lock while it reads the request or    *)
(* writes a response.                                                      *)
C16_NoLockDuringIo ==
    server.pc \in {"read", "respond", "serve_500"} => mutex.holder # "server"

(* C17: a file whose text cannot be extracted is skipped and gets no       *)
(* record, and it does not abort the pass: only an error of the directory  *)
(* listing does; a pass that completes has indexed every other file.       *)
C17_ContentErrorSkipsOneFile ==
    /\ walk.failed \cap DOMAIN walk.tf_index = {}
    /\ walk.status = "err" => walk.listing
    /\ walk.status = "ok" => DOMAIN walk.tf_index = Files \ walk.failed

(* A pass has completed after the first file failed, with the files after  *)
(* it indexed.                                                             *)
C17_Witness ==
    /\ walk.status = "ok"
    /\ walk.failed = {"f1"}
    /\ DOMAIN walk.tf_index = {"f2", "f3", "f4"}

(* C18 as claimed: for any query q and any index state, the score of each  *)
(* document for q, white space and q again is twice its score for q.       *)
C18_DoubledQueryDoublesScore ==
    last.op = "search" =>
        \A p \in DOMAIN docs :
            Score(p, Doubled(last.text)) = Twice(Score(p, last.text))

(* C18 as amended: the score is the f32 sum over every token, duplicates   *)
(* included, and the score for the doubled query is twice the score for q  *)
(* (or both are NaN) whenever at most one token of q adds something other  *)
(* than 0.0 for the document, as for every query of one token.             *)
C18_DoubledQueryDoublesOneTerm ==
    last.op = "search" =>
        \A p \in DOMAIN docs :
            Cardinality(Contributing(p, last.text)) <= 1 =>
                Score(p, Doubled(last.text)) = Twice(Score(p, last.text))

(* A query of several tokens has returned a document to whose score one    *)
(* token alone has added, and the doubled query scores more.               *)
C18_Witness ==
    /\ last.op = "search"
    /\ Len(QueryTerms(last.text)) >= 2
    /\ \E i \in 1..Len(hits) :
          /\ Cardinality(Contributing(hits[i].path, last.text)) = 1
          /\ f32_lt(hits[i].rank, Score(hits[i].path, Doubled(last.text)))

(* C19: the result of search_query is the same sequence of (document,      *)
(* score) pairs in whatever order the document map is iterated, documents  *)
(* of equal score included.                                                *)
C19_OrderIndependentOfIteration ==
    last.op = "search" =>
        \A o \in Orders(DOMAIN docs) : search_query(Cur, last.text, o).hits = hits

(* C20: in every state reached by add_document and remove_document, every  *)
(* stored Doc has count equal to the sum of the values of its tf, and      *)
(* every value of tf is at least 1.                                        *)
C20_CountIsSumOfTf ==
    \A p \in DOMAIN docs :
        /\ docs[p].count = SumValues(docs[p].tf)
        /\ \A t \in DOMAIN docs[p].tf : docs[p].tf[t] >= 1

(* A document has been added again with a term that occurs twice and       *)
(* another term, while another document is stored.                         *)
C20_Witness ==
    /\ last.op = "add" /\ last.had
    /\ Cardinality(DOMAIN docs) >= 2
    /\ \E t \in DOMAIN docs[last.path].tf : docs[last.path].tf[t] >= 2
    /\ Cardinality(DOMAIN docs[last.path].tf) >= 2

(* C21: in every state reached by add_document and remove_document every   *)
(* df entry is between 0 and the number of stored documents;               *)
(* remove_document (called directly or by add_document) never decrements   *)
(* an entry that is 0; so compute_idf is not negative for a term of a      *)
(* stored document, and every score search_query returns is greater than   *)
(* 0.                                                                      *)
C21_DfBoundedScoresPositive ==
    [][/\ \A t \in DOMAIN df' :
             0 <= df'[t] /\ df'[t] <= Cardinality(DOMAIN docs')
       /\ fault' # "sub_overflow"
       /\ (last.op = "idle" /\ last'.op \in {"add", "remove"} /\ last'.had) =>
             \A t \in DOMAIN docs[last'.path].tf \cap DOMAIN df : df[t] >= 1
       /\ \A p \in DOMAIN docs' : \A t \in DOMAIN docs'[p].tf :
             f32_ge(compute_idf(t, Cardinality(DOMAIN docs'), df'), Zero)
       /\ last'.op = "search" =>
             \A i \in 1..Len(hits') : f32_lt(Zero, hits'[i].rank)]_vars

(* A query has returned a document with its score while one df entry is 0  *)
(* (its last document was removed) and another counts every stored         *)
(* document but one.                                                       *)
C21_Witness ==
    /\ last.op = "search"
    /\ Len(hits) >= 1
    /\ \E t \in DOMAIN df : df[t] = 0
    /\ \E t \in DOMAIN df : df[t] >= 1 /\ df[t] < Cardinality(DOMAIN docs)

(* C22: the comparison in the sort of search_query never fails: whatever   *)
(* the index, the query and the order of iteration, no score in the list   *)
(* that is sorted is NaN, every two of them are comparable, and            *)
(* partial_cmp(..).unwrap() does not panic.                                *)
C22_SortNeverPanics ==
    last.op = "search" =>
        /\ fault # "unwrap_none"
        /\ \A o \in Orders(DOMAIN docs) :
              LET result == pushed(Cur, last.text, o)
              IN  /\ \A i \in 1..Len(result) : ~is_nan(result[i].rank)
                  /\ ~sort_panics(result)

(* A query has been answered over an index with a document whose score is  *)
(* NaN, and two documents of different scores have been sorted.            *)
C22_Witness ==
    /\ last.op = "search"
    /\ \E p \in DOMAIN docs : is_nan(Score(p, last.text))
    /\ Len(hits) >= 2
    /\ f32_lt(hits[2].rank, hits[1].rank)

(* C23: add_document(d, ..) and remove_document(d) leave the record of     *)
(* every document other than d as it was, store and remove no other        *)
(* document, and leave df[t] as it was (an entry as it was, no entry       *)
(* absent) for every term t that is neither in the record d had nor in the *)
(* record d has; remove_document(d) of a d that is not stored changes      *)
(* neither docs nor df.                                                    *)
C23_OtherDocumentsAndTermsUntouched ==
    [][(last.op = "idle" /\ last'.op \in {"add", "remove"}) =>
         LET d == last'.path
             old == IF d \in DOMAIN docs THEN DOMAIN docs[d].tf ELSE {}
             new == IF d \in DOMAIN docs' THEN DOMAIN docs'[d].tf ELSE {}
         IN  /\ DOMAIN docs' \ {d} = DOMAIN docs \ {d}
             /\ \A p \in DOMAIN docs \ {d} : docs'[p] = docs[p]
             /\ DOMAIN df' \ (old \cup new) = DOMAIN df \ (old \cup new)
             /\ \A t \in DOMAIN df \ (old \cup new) : df'[t] = df[t]
             /\ (last'.op = "remove" /\ ~last'.had) => (docs' = docs /\ df' = df)]_vars

(* add_document has replaced the record of a stored document by one of     *)
(* other terms, while another document with terms is stored and df counts  *)
(* a term the new record does not hold.                                    *)
C23_Witness ==
    /\ last.op = "add" /\ last.had
    /\ docs[last.path].count >= 1
    /\ \E p \in DOMAIN docs \ {last.path} : docs[p].count >= 1
    /\ \E t \in DOMAIN df : t \notin DOMAIN docs[last.path].tf /\ df[t] >= 1

===========================================================================
